---- MODULE Spec2Model ----
(***************************************************************************)
(* Layer-workspace navigation of TheApeMachine/datafoo.                    *)
(*                                                                         *)
(* Two providers are modelled:                                             *)
(*   - the edge-linked workspace graph (LayerWorkspaceProvider), and       *)
(*   - the coordinate grid registry with history (Page.LayerProvider).     *)
(* The useDynamicLayers hook on top of the grid provider and the           *)
(* ThemeProvider are modelled as two further variants.                     *)
(* One provider instance is mounted per behaviour; `variant` says which.   *)
(* Every handler is one atomic action: React re-renders between two input  *)
(* events, so a handler reads the state committed by the previous one.     *)
(***************************************************************************)
EXTENDS Integers, Sequences, FiniteSets, TLC

VARIABLES
    variant,          \* "edge", "grid", "dynamic" or "theme": what is mounted
    layers,           \* edge: layersRef        (id -> LayerNode)
    positionIndex,    \* edge: positionIndexRef (<<x,y,z>> -> id)
    surfaceStacks,    \* edge: surfaceStacksRef (<<x,y>> -> sequence of ids)
    activeLayerId,    \* edge: activeLayerId state, None when null
    thrown,           \* edge: the Error thrown by the last call, NoError if it returned
    gridLayers,       \* grid: layersRef     (id -> LayerMetadata)
    layerOrder,       \* grid: layerOrderRef (ids in registration order)
    currentX,         \* grid: currentX state
    currentY,         \* grid: currentY state
    currentOffset,    \* grid: currentOffset state
    history,          \* grid: history state (NavigationHistoryEntry[])
    historyIndex,     \* grid: historyIndex state
    gridConfig,       \* grid: gridConfig state (infinite flag, optional bounds)
    unmounts,         \* grid: number of Page.Layer cleanups (unregisterLayer calls) so far
    dynLayers,        \* dynamic: useDynamicLayers `layers` state (DynamicLayerData[])
    dynTimers,        \* dynamic: pending setTimeout callbacks of addLayer, oldest first
    dynNow,           \* dynamic: Date.now() of the latest layer creation
    themeMounted,     \* theme: an InnerThemeProvider is mounted
    mode,             \* theme: mode state
    contrast,         \* theme: contrast state
    theme,            \* theme: theme state
    storage,          \* theme: localStorage items theme-mode, theme-contrast, theme-name
    themeSettingsCache, \* theme: the module-level Map, as the sequence of its values
    prefersDark,      \* theme: matchMedia("(prefers-color-scheme: dark)").matches
    prefersContrast   \* theme: matchMedia("(prefers-contrast: more)").matches

edgeVars == <<layers, positionIndex, surfaceStacks, activeLayerId, thrown>>
gridVars == <<gridLayers, layerOrder, currentX, currentY, currentOffset,
              history, historyIndex, gridConfig, unmounts>>
hookVars == <<dynLayers, dynTimers, dynNow>>
themeVars == <<themeMounted, mode, contrast, theme, storage, themeSettingsCache,
               prefersDark, prefersContrast>>

(***************************************************************************)
(* Bounds of the model.                                                    *)
(***************************************************************************)
NumIds == 3          \* layer ids are 1..NumIds
MaxCoord == 1        \* nodes are created with x, y, z in 0..MaxCoord
MaxRegistered == 4   \* at most this many successful registerNode calls
maxHistory == 3      \* the maxHistory prop of Page.LayerProvider
MaxUnmounts == 1     \* at most this many unregisterLayer calls
MaxCreated == 3      \* at most this many layers created by useDynamicLayers.addLayer

Ids == 1..NumIds
None == 0            \* null / undefined id

(***************************************************************************)
(* Edge-linked workspace graph.                                            *)
(***************************************************************************)
EdgeDirection == {"up", "right", "down", "left"}
DepthDirection == {"above", "below"}
ConnectDirection == EdgeDirection \cup {"above"}
NavigationDirection == EdgeDirection \cup {"forward", "backward", "first", "last"}

\* variant of edgeOffsets with the sign of the "down" offset flipped
edgeOffsets_DownFlipped ==
    [d \in {"up", "right", "down", "left"} |->
        CASE d = "up"    -> [x |-> 0,  y |-> 1]
          [] d = "right" -> [x |-> 1,  y |-> 0]
          [] d = "down"  -> [x |-> 0,  y |-> 1]
          [] d = "left"  -> [x |-> -1, y |-> 0]]

edgeOffsets ==
    [d \in EdgeDirection |->
        CASE d = "up"    -> [x |-> 0,  y |-> 1]
          [] d = "right" -> [x |-> 1,  y |-> 0]
          [] d = "down"  -> [x |-> 0,  y |-> -1]
          [] d = "left"  -> [x |-> -1, y |-> 0]]

oppositeEdge ==
    [d \in EdgeDirection \cup DepthDirection |->
        CASE d = "up"    -> "down"
          [] d = "down"  -> "up"
          [] d = "left"  -> "right"
          [] d = "right" -> "left"
          [] d = "above" -> "below"
          [] d = "below" -> "above"]

coordKey(x, y, z) == <<x, y, z>>
surfaceKey(x, y) == <<x, y>>

NoError == "none"
DuplicateRoot == "Layer workspace already has a root layer"
LayerNotFound == "Layer not found"
NeighborExists == "Layer already has a neighbor"
PositionOccupied == "position is already occupied"

noAdjacent == [d \in EdgeDirection \cup DepthDirection |-> None]

\* The provider's mutable state as one value, so that handlers compose.
WS == [layers |-> layers, positionIndex |-> positionIndex,
       surfaceStacks |-> surfaceStacks, activeLayerId |-> activeLayerId,
       thrown |-> thrown]

emptyWorkspace == [layers |-> <<>>, positionIndex |-> <<>>,
                   surfaceStacks |-> <<>>, activeLayerId |-> None,
                   thrown |-> NoError]

\* stack.sort((a, b) => b.z - a.z): a stable sort, deepest z first
RECURSIVE sortStack(_, _)
sortStack(stack, L) ==
    IF stack = <<>> THEN <<>>
    ELSE LET n == Len(stack)
             rest == sortStack(SubSeq(stack, 1, n - 1), L)
             e == stack[n]
             k == Cardinality({i \in 1..Len(rest) : L[rest[i]].z >= L[e].z})
         IN SubSeq(rest, 1, k) \o <<e>> \o SubSeq(rest, k + 1, Len(rest))

registerNode(ws, node) ==
    LET L1 == (node.id :> node) @@ ws.layers
        P1 == (coordKey(node.x, node.y, node.z) :> node.id) @@ ws.positionIndex
        stackKey == surfaceKey(node.x, node.y)
        stack == IF stackKey \in DOMAIN ws.surfaceStacks
                 THEN ws.surfaceStacks[stackKey] ELSE <<>>
        sorted == sortStack(Append(stack, node.id), L1)
    IN [ws EXCEPT !.layers = L1, !.positionIndex = P1,
                  !.surfaceStacks = (stackKey :> sorted) @@ ws.surfaceStacks]

updateNode(ws, node) == [ws EXCEPT !.layers = (node.id :> node) @@ ws.layers]

\* variant of ensurePositionAvailable that never throws
ensurePositionAvailable_NoCheck(ws, x, y, z) == TRUE

\* TRUE when ensurePositionAvailable returns, FALSE when it throws
ensurePositionAvailable(ws, x, y, z) == coordKey(x, y, z) \notin DOMAIN ws.positionIndex

\* variant of addRootLayer without the duplicate-root guard
addRootLayer_NoGuard(ws, id) ==
    LET node == [id |-> id, x |-> 0, y |-> 0, z |-> 0, adjacent |-> noAdjacent]
    IN [registerNode(ws, node) EXCEPT !.activeLayerId = id, !.thrown = NoError]

addRootLayer(ws, id) ==
    IF Cardinality(DOMAIN ws.layers) > 0
    THEN [ws EXCEPT !.thrown = DuplicateRoot]
    ELSE LET node == [id |-> id, x |-> 0, y |-> 0, z |-> 0, adjacent |-> noAdjacent]
         IN [registerNode(ws, node) EXCEPT !.activeLayerId = id, !.thrown = NoError]

\* the coordinate addLayer computes for a node connected from `from` on `direction`
targetCoord(from, direction) ==
    IF direction = "above"
    THEN [x |-> from.x, y |-> from.y, z |-> from.z + 1]
    ELSE [x |-> from.x + edgeOffsets[direction].x,
          y |-> from.y + edgeOffsets[direction].y,
          z |-> from.z]

\* variant of addLayer that registers the node before the coordinate check
addLayer_RegisterFirst(ws, fromLayerId, direction, id) ==
    IF fromLayerId \notin DOMAIN ws.layers
    THEN [ws EXCEPT !.thrown = LayerNotFound]
    ELSE LET from == ws.layers[fromLayerId] IN
    IF from.adjacent[direction] # None
    THEN [ws EXCEPT !.thrown = NeighborExists]
    ELSE LET c == targetCoord(from, direction)
             node == [id |-> id, x |-> c.x, y |-> c.y, z |-> c.z,
                      adjacent |-> noAdjacent]
             ws1 == registerNode(ws, node)
         IN IF ~ensurePositionAvailable(ws, c.x, c.y, c.z)
            THEN [ws1 EXCEPT !.thrown = PositionOccupied]
            ELSE LET target == ws1.layers[node.id]
                     from2 == [from EXCEPT !.adjacent[direction] = node.id]
                     target2 == [target EXCEPT
                                    !.adjacent[oppositeEdge[direction]] = from.id]
                     ws2 == updateNode(updateNode(ws1, from2), target2)
                 IN [ws2 EXCEPT !.activeLayerId = node.id, !.thrown = NoError]

addLayer(ws, fromLayerId, direction, id) ==
    IF fromLayerId \notin DOMAIN ws.layers
    THEN [ws EXCEPT !.thrown = LayerNotFound]
    ELSE LET from == ws.layers[fromLayerId] IN
    IF from.adjacent[direction] # None
    THEN [ws EXCEPT !.thrown = NeighborExists]
    ELSE LET c == targetCoord(from, direction) IN
    IF ~ensurePositionAvailable(ws, c.x, c.y, c.z)
    THEN [ws EXCEPT !.thrown = PositionOccupied]
    ELSE LET node == [id |-> id, x |-> c.x, y |-> c.y, z |-> c.z,
                      adjacent |-> noAdjacent]
             ws1 == registerNode(ws, node)
             target == ws1.layers[node.id]
             \* `from` is still the object read before registerNode
             from2 == [from EXCEPT !.adjacent[direction] = node.id]
             target2 == [target EXCEPT !.adjacent[oppositeEdge[direction]] = from.id]
             ws2 == updateNode(updateNode(ws1, from2), target2)
         IN [ws2 EXCEPT !.activeLayerId = node.id, !.thrown = NoError]

setActiveLayer(ws, layerId) ==
    IF layerId \notin DOMAIN ws.layers
    THEN [ws EXCEPT !.thrown = LayerNotFound]
    ELSE [ws EXCEPT !.activeLayerId = layerId, !.thrown = NoError]

\* the node returned, or None for null
getActiveLayer(ws) ==
    IF ws.activeLayerId = None THEN None
    ELSE IF ws.activeLayerId \in DOMAIN ws.layers THEN ws.activeLayerId ELSE None

navigate(ws, direction) ==
    LET a == getActiveLayer(ws) IN
    IF a = None THEN [ws EXCEPT !.thrown = NoError]
    ELSE LET active == ws.layers[a]
             sk == surfaceKey(active.x, active.y)
             hasStack == sk \in DOMAIN ws.surfaceStacks /\ ws.surfaceStacks[sk] # <<>>
             stack == ws.surfaceStacks[sk]
             neighborKey ==
                 CASE direction = "forward"  -> active.adjacent["above"]
                   [] direction = "backward" -> active.adjacent["below"]
                   [] direction \in EdgeDirection -> active.adjacent[direction]
                   [] OTHER -> None
             next ==
                 CASE direction = "first" ->
                        IF hasStack THEN stack[1] ELSE ws.activeLayerId
                   [] direction = "last" ->
                        IF hasStack THEN stack[Len(stack)] ELSE ws.activeLayerId
                   [] OTHER ->
                        IF neighborKey # None THEN neighborKey ELSE ws.activeLayerId
         IN [ws EXCEPT !.activeLayerId = next, !.thrown = NoError]

navigateDepthIndex(ws, index) ==
    LET a == getActiveLayer(ws) IN
    IF a = None THEN [ws EXCEPT !.thrown = NoError]
    ELSE LET active == ws.layers[a]
             sk == surfaceKey(active.x, active.y)
         IN IF sk \notin DOMAIN ws.surfaceStacks THEN [ws EXCEPT !.thrown = NoError]
            ELSE IF index < 0 \/ index >= Len(ws.surfaceStacks[sk])
                 THEN [ws EXCEPT !.thrown = NoError]
                 ELSE [ws EXCEPT !.activeLayerId = ws.surfaceStacks[sk][index + 1],
                                 !.thrown = NoError]

\* the slots Object.values(active.adjacent) runs over; the order in which a
\* Set keeps them does not enter any property
adjacentSlots == <<"up", "right", "down", "left", "above", "below">>

\* ids.add(neighborId) for the first k slots: a Set keeps one copy of each id
RECURSIVE addNeighbors(_, _, _)
addNeighbors(ids, adjacent, k) ==
    IF k = 0 THEN ids
    ELSE LET sofar == addNeighbors(ids, adjacent, k - 1)
             neighborId == adjacent[adjacentSlots[k]]
         IN IF neighborId # None /\ \A i \in 1..Len(sofar) : sofar[i] # neighborId
            THEN Append(sofar, neighborId) ELSE sofar

\* variant of addNeighbors without the `if (neighborId)` test
RECURSIVE addNeighbors_NoTest(_, _, _)
addNeighbors_NoTest(ids, adjacent, k) ==
    IF k = 0 THEN ids
    ELSE LET sofar == addNeighbors_NoTest(ids, adjacent, k - 1)
             neighborId == adjacent[adjacentSlots[k]]
         IN IF \A i \in 1..Len(sofar) : sofar[i] # neighborId
            THEN Append(sofar, neighborId) ELSE sofar

\* variant of getVisibleLayerIds that collects the neighbors untested
getVisibleLayerIds_NullNeighbors(ws, virtualizeNeighbors) ==
    IF ws.activeLayerId = None THEN <<>>
    ELSE IF ~virtualizeNeighbors THEN <<ws.activeLayerId>>
    ELSE IF ws.activeLayerId \notin DOMAIN ws.layers THEN <<ws.activeLayerId>>
    ELSE addNeighbors_NoTest(<<ws.activeLayerId>>, ws.layers[ws.activeLayerId].adjacent,
                             Len(adjacentSlots))

getVisibleLayerIds(ws, virtualizeNeighbors) ==
    IF ws.activeLayerId = None THEN <<>>
    ELSE IF ~virtualizeNeighbors THEN <<ws.activeLayerId>>
    ELSE IF ws.activeLayerId \notin DOMAIN ws.layers THEN <<ws.activeLayerId>>
    ELSE addNeighbors(<<ws.activeLayerId>>, ws.layers[ws.activeLayerId].adjacent,
                      Len(adjacentSlots))

getSnapshot(ws, virtualizeNeighbors) ==
    [activeLayerId |-> ws.activeLayerId,
     layers |-> ws.layers,
     visibleLayerIds |-> getVisibleLayerIds(ws, virtualizeNeighbors)]

isEdgeAvailable(ws, layerId, direction) ==
    IF layerId \notin DOMAIN ws.layers THEN FALSE
    ELSE ws.layers[layerId].adjacent[direction] = None

(***************************************************************************)
(* Actions of the edge-linked workspace.                                   *)
(***************************************************************************)
SetWS(r) ==
    /\ layers' = r.layers
    /\ positionIndex' = r.positionIndex
    /\ surfaceStacks' = r.surfaceStacks
    /\ activeLayerId' = r.activeLayerId
    /\ thrown' = r.thrown

InBounds(c) ==
    /\ c.x \in 0..MaxCoord
    /\ c.y \in 0..MaxCoord
    /\ c.z \in 0..MaxCoord

AddRoot(id) ==
    /\ variant = "edge"
    /\ SetWS(addRootLayer(WS, id))
    /\ UNCHANGED <<variant, gridVars, hookVars, themeVars>>

Connect(fromLayerId, direction, id) ==
    /\ variant = "edge"
    /\ LET r == addLayer(WS, fromLayerId, direction, id) IN
         /\ r.thrown = NoError =>
               /\ InBounds(r.layers[id])
               /\ Cardinality(DOMAIN positionIndex) < MaxRegistered
         /\ SetWS(r)
    /\ UNCHANGED <<variant, gridVars, hookVars, themeVars>>

SetActive(layerId) ==
    /\ variant = "edge"
    /\ SetWS(setActiveLayer(WS, layerId))
    /\ UNCHANGED <<variant, gridVars, hookVars, themeVars>>

Navigate(direction) ==
    /\ variant = "edge"
    /\ SetWS(navigate(WS, direction))
    /\ UNCHANGED <<variant, gridVars, hookVars, themeVars>>

NavigateDepthIndex(index) ==
    /\ variant = "edge"
    /\ SetWS(navigateDepthIndex(WS, index))
    /\ UNCHANGED <<variant, gridVars, hookVars, themeVars>>

NextEdge ==
    \/ \E id \in Ids : AddRoot(id)
    \/ \E f \in Ids, d \in ConnectDirection, id \in Ids : Connect(f, d, id)
    \/ \E id \in Ids : SetActive(id)
    \/ \E d \in NavigationDirection : Navigate(d)
    \/ \E i \in 0..MaxCoord : NavigateDepthIndex(i)

(***************************************************************************)
(* Coordinate grid registry with navigation history (Page.LayerProvider).  *)
(***************************************************************************)
offset == 1000
spacing == [x |-> 1000, y |-> 1000, z |-> 1000]

\* The Page.Layer components of the scene and their x, y, z props:
\* root at the origin, A at (1,0,0), B at (2,0,0).
GridScene == << <<0, 0, 0>>, <<1, 0, 0>>, <<2, 0, 0>> >>
GridIds == 1..Len(GridScene)

\* positions the navigation calls are tried on: the row and its surroundings
GridPositions ==
    {<<x, 0, 0>> : x \in 0..Len(GridScene)} \cup {<<0, 1, 0>>, <<0, 0, 1>>}

\* the bounds prop of the bounded configurations: layer B at (2,0,0) lies outside
sceneBounds == [minX |-> 0, maxX |-> 1, minY |-> 0, maxY |-> 1, minZ |-> 0, maxZ |-> 1]

\* the configuration of a provider mounted without a gridConfig prop
defaultGridConfig == [infinite |-> FALSE, hasBounds |-> FALSE, bounds |-> sceneBounds]

\* the gridConfig props the provider is mounted with: the default (finite, no
\* bounds), a finite grid with bounds and an infinite grid given bounds
GridConfigs ==
    { defaultGridConfig,
      [infinite |-> FALSE, hasBounds |-> TRUE, bounds |-> sceneBounds],
      [infinite |-> TRUE,  hasBounds |-> TRUE, bounds |-> sceneBounds] }

\* The provider's state as one value, so that handlers compose.
GS == [layers |-> gridLayers, layerOrder |-> layerOrder,
       currentX |-> currentX, currentY |-> currentY, currentOffset |-> currentOffset,
       history |-> history, historyIndex |-> historyIndex, gridConfig |-> gridConfig]

Min(a, b) == IF a < b THEN a ELSE b

\* position of id in the order (0-based), -1 when absent: Array.prototype.indexOf
indexOf(order, id) ==
    IF \E i \in 1..Len(order) : order[i] = id
    THEN (CHOOSE i \in 1..Len(order) :
            order[i] = id /\ \A j \in 1..(i - 1) : order[j] # id) - 1
    ELSE -1

\* Array.prototype.splice(index, 1)
splice1(order, index) ==
    SubSeq(order, 1, index) \o SubSeq(order, index + 2, Len(order))

registerLayer(g, id, pos) ==
    IF id \in DOMAIN g.layers THEN g
    ELSE LET index == Len(g.layerOrder)
             isOrigin == pos[1] = 0 /\ pos[2] = 0 /\ pos[3] = 0
             metadata == [id |-> id,
                          state |-> IF isOrigin THEN "active" ELSE "inactive",
                          index |-> index,
                          x |-> pos[1], y |-> pos[2], z |-> pos[3]]
         IN [g EXCEPT !.layerOrder = Append(g.layerOrder, id),
                      !.layers = (id :> metadata) @@ g.layers]

unregisterLayer(g, id) ==
    LET index == indexOf(g.layerOrder, id)
    IN [g EXCEPT !.layers = [i \in (DOMAIN g.layers) \ {id} |-> g.layers[i]],
                 !.layerOrder = IF index > -1 THEN splice1(g.layerOrder, index)
                                ELSE g.layerOrder]

\* Array.from(layersRef.current.values()): the Map iterates in insertion order,
\* which is the order of layerOrderRef
layerValues(g) == [i \in 1..Len(g.layerOrder) |-> g.layers[g.layerOrder[i]]]

\* Array.prototype.find over the layers: the id of the first layer whose test
\* result is TRUE, None when find returns undefined
findFirst(seq, hits) ==
    IF \E i \in 1..Len(seq) : hits[i]
    THEN seq[CHOOSE i \in 1..Len(seq) :
                hits[i] /\ \A j \in 1..(i - 1) : ~hits[j]].id
    ELSE None

gridActiveLayer(g) ==
    LET vals == layerValues(g)
    IN findFirst(vals, [i \in 1..Len(vals) |-> vals[i].state = "active"])

getLayerAtPosition(g, pos) ==
    LET vals == layerValues(g)
    IN findFirst(vals, [i \in 1..Len(vals) |->
                          /\ vals[i].x = pos[1]
                          /\ vals[i].y = pos[2]
                          /\ vals[i].z = pos[3]])

\* variant of addToHistory that appends without slicing at the cursor
addToHistory_NoSlice(g, cap, layerId, index) ==
    LET newHistory == Append(g.history, [layerId |-> layerId, index |-> index])
        limited == IF Len(newHistory) > maxHistory THEN Tail(newHistory) ELSE newHistory
    IN [g EXCEPT !.history = limited,
                 !.historyIndex = Min(g.historyIndex + 1, maxHistory - 1)]

\* variant of addToHistory that drops the newest entry (pop) instead of the oldest
addToHistory_Pop(g, cap, layerId, index) ==
    LET keep == Min(cap.historyIndex + 1, Len(g.history))
        newHistory == Append(SubSeq(g.history, 1, keep),
                             [layerId |-> layerId, index |-> index])
        limited == IF Len(newHistory) > maxHistory
                   THEN SubSeq(newHistory, 1, Len(newHistory) - 1) ELSE newHistory
    IN [g EXCEPT !.history = limited,
                 !.historyIndex = Min(g.historyIndex + 1, maxHistory - 1)]

\* `cap` is the state the callback closed over at the last render,
\* `g` the state the queued updaters are applied to
addToHistory(g, cap, layerId, index) ==
    LET keep == Min(cap.historyIndex + 1, Len(g.history))
        newHistory == Append(SubSeq(g.history, 1, keep),
                             [layerId |-> layerId, index |-> index])
        limited == IF Len(newHistory) > maxHistory THEN Tail(newHistory) ELSE newHistory
    IN [g EXCEPT !.history = limited,
                 !.historyIndex = Min(g.historyIndex + 1, maxHistory - 1)]

navigateToIndex(g, cap, targetIndex) ==
    LET totalLayers == Len(g.layerOrder)
        newOffset == (-targetIndex) * offset
        relabelled ==
            [i \in DOMAIN g.layers |->
                [g.layers[i] EXCEPT !.state =
                    IF (-g.layers[i].index) * offset + newOffset = 0
                    THEN "active" ELSE "inactive"]]
        g1 == [g EXCEPT !.currentOffset = newOffset, !.layers = relabelled]
    IN IF targetIndex >= 0 /\ targetIndex < totalLayers
       THEN addToHistory(g1, cap, g.layerOrder[targetIndex + 1], targetIndex)
       ELSE g1

\* TRUE when navigateToLayer throws: it has no throw on any path, an unknown
\* id falls through the `index > -1` test
navigateToLayerThrows(g, layerId) == FALSE

navigateToLayer(g, cap, layerId) ==
    LET index == indexOf(g.layerOrder, layerId)
    IN IF index > -1 THEN navigateToIndex(g, cap, index) ELSE g

navigateToGridPosition(g, cap, pos) ==
    LET layerAtPosition == getLayerAtPosition(g, pos) IN
    IF layerAtPosition = None THEN g
    ELSE LET newX == pos[1] * spacing.x
             newY == pos[2] * spacing.y
             newZ == pos[3] * spacing.z
             relabelled ==
                 [i \in DOMAIN g.layers |->
                     [g.layers[i] EXCEPT !.state =
                         IF /\ g.layers[i].x * spacing.x - newX = 0
                            /\ g.layers[i].y * spacing.y - newY = 0
                            /\ g.layers[i].z * spacing.z - newZ = 0
                         THEN "active" ELSE "inactive"]]
             g1 == [g EXCEPT !.currentX = newX, !.currentY = newY,
                             !.currentOffset = newZ, !.layers = relabelled]
         IN addToHistory(g1, cap, layerAtPosition, g.layers[layerAtPosition].index)

\* contextValue.currentGridPosition
currentGridPosition(g) ==
    <<g.currentX \div spacing.x, g.currentY \div spacing.y, g.currentOffset \div spacing.z>>

gridTarget(cap, direction) ==
    LET c == currentGridPosition(cap) IN
    CASE direction = "backward" -> <<c[1], c[2], c[3] - 1>>
      [] direction = "forward"  -> <<c[1], c[2], c[3] + 1>>
      [] direction = "left"     -> <<c[1] - 1, c[2], c[3]>>
      [] direction = "right"    -> <<c[1] + 1, c[2], c[3]>>
      [] direction = "up"       -> <<c[1], c[2] + 1, c[3]>>
      [] direction = "down"     -> <<c[1], c[2] - 1, c[3]>>
      [] direction = "first"    -> <<0, 0, 0>>
      [] direction = "last"     -> c

\* variant of outOfBounds that tests the lower bounds only
outOfBounds_LowerOnly(cfg, t) ==
    /\ ~cfg.infinite
    /\ cfg.hasBounds
    /\ \/ t[1] < cfg.bounds.minX
       \/ t[2] < cfg.bounds.minY
       \/ t[3] < cfg.bounds.minZ

outOfBounds(cfg, t) ==
    /\ ~cfg.infinite
    /\ cfg.hasBounds
    /\ \/ t[1] < cfg.bounds.minX \/ t[1] > cfg.bounds.maxX
       \/ t[2] < cfg.bounds.minY \/ t[2] > cfg.bounds.maxY
       \/ t[3] < cfg.bounds.minZ \/ t[3] > cfg.bounds.maxZ

gridNavigate(g, cap, direction) ==
    LET t == gridTarget(cap, direction)
    IN IF outOfBounds(cap.gridConfig, t) THEN g
       ELSE navigateToGridPosition(g, cap, t)

\* variant of goBack that is off by one: guard >= 0, replays the cursor entry
goBack_OffByOne(g, cap) ==
    IF cap.historyIndex >= 0 /\ cap.historyIndex < Len(cap.history)
    THEN LET prevEntry == cap.history[cap.historyIndex + 1]
             g1 == [g EXCEPT !.historyIndex = cap.historyIndex - 1]
         IN navigateToIndex(g1, cap, prevEntry.index)
    ELSE g

goBack(g, cap) ==
    IF cap.historyIndex > 0
    THEN LET prevEntry == cap.history[cap.historyIndex]
             g1 == [g EXCEPT !.historyIndex = cap.historyIndex - 1]
         IN navigateToIndex(g1, cap, prevEntry.index)
    ELSE g

goForward(g, cap) ==
    IF cap.historyIndex < Len(cap.history) - 1
    THEN LET nextEntry == cap.history[cap.historyIndex + 2]
             g1 == [g EXCEPT !.historyIndex = cap.historyIndex + 1]
         IN navigateToIndex(g1, cap, nextEntry.index)
    ELSE g

\* useLayerNavigation: canGoBack, canGoForward
canGoBack(g) == g.historyIndex > 0
canGoForward(g) == g.historyIndex < Len(g.history) - 1

(***************************************************************************)
(* Actions of the grid provider.                                           *)
(***************************************************************************)
SetGS(r) ==
    /\ gridLayers' = r.layers
    /\ layerOrder' = r.layerOrder
    /\ currentX' = r.currentX
    /\ currentY' = r.currentY
    /\ currentOffset' = r.currentOffset
    /\ history' = r.history
    /\ historyIndex' = r.historyIndex
    /\ gridConfig' = r.gridConfig

KeepUnmounts == unmounts' = unmounts

RegisterLayer(id, pos) ==
    /\ variant = "grid"
    /\ SetGS(registerLayer(GS, id, pos))
    /\ KeepUnmounts
    /\ UNCHANGED <<variant, edgeVars, hookVars, themeVars>>

UnregisterLayer(id) ==
    /\ variant = "grid"
    /\ unmounts < MaxUnmounts
    /\ SetGS(unregisterLayer(GS, id))
    /\ unmounts' = unmounts + 1
    /\ UNCHANGED <<variant, edgeVars, hookVars, themeVars>>

NavigateToIndex(targetIndex) ==
    /\ variant = "grid"
    /\ SetGS(navigateToIndex(GS, GS, targetIndex))
    /\ KeepUnmounts
    /\ UNCHANGED <<variant, edgeVars, hookVars, themeVars>>

NavigateToLayer(layerId) ==
    /\ variant = "grid"
    /\ SetGS(navigateToLayer(GS, GS, layerId))
    /\ KeepUnmounts
    /\ UNCHANGED <<variant, edgeVars, hookVars, themeVars>>

NavigateToGridPosition(pos) ==
    /\ variant = "grid"
    /\ SetGS(navigateToGridPosition(GS, GS, pos))
    /\ KeepUnmounts
    /\ UNCHANGED <<variant, edgeVars, hookVars, themeVars>>

GridNavigate(direction) ==
    /\ variant = "grid"
    /\ SetGS(gridNavigate(GS, GS, direction))
    /\ KeepUnmounts
    /\ UNCHANGED <<variant, edgeVars, hookVars, themeVars>>

GoBack ==
    /\ variant = "grid"
    /\ SetGS(goBack(GS, GS))
    /\ KeepUnmounts
    /\ UNCHANGED <<variant, edgeVars, hookVars, themeVars>>

GoForward ==
    /\ variant = "grid"
    /\ SetGS(goForward(GS, GS))
    /\ KeepUnmounts
    /\ UNCHANGED <<variant, edgeVars, hookVars, themeVars>>

NextGrid ==
    \/ \E id \in GridIds : RegisterLayer(id, GridScene[id])
    \/ \E id \in GridIds : UnregisterLayer(id)
    \/ \E i \in -1..Len(GridScene) : NavigateToIndex(i)
    \/ \E id \in GridIds : NavigateToLayer(id)
    \/ \E pos \in GridPositions : NavigateToGridPosition(pos)
    \/ \E d \in NavigationDirection : GridNavigate(d)
    \/ GoBack
    \/ GoForward

(***************************************************************************)
(* useDynamicLayers on top of the grid provider (layer-creator.tsx).       *)
(***************************************************************************)
RelativePosition == {"top", "right", "bottom", "left", "stack"}

calculateNewPosition(currentPos, direction) ==
    CASE direction = "top"    -> <<currentPos[1], currentPos[2] + 1, currentPos[3]>>
      [] direction = "bottom" -> <<currentPos[1], currentPos[2] - 1, currentPos[3]>>
      [] direction = "left"   -> <<currentPos[1] - 1, currentPos[2], currentPos[3]>>
      [] direction = "right"  -> <<currentPos[1] + 1, currentPos[2], currentPos[3]>>
      [] direction = "stack"  -> <<currentPos[1], currentPos[2], currentPos[3] + 1>>
      [] OTHER -> currentPos

\* const initialLayers of the grid workspace demo: the center layer
initialLayers == << [id |-> 1, position |-> <<0, 0, 0>>] >>

\* the gridConfig prop of the grid workspace demo: infinite, no bounds
dynamicGridConfig == [infinite |-> TRUE, hasBounds |-> FALSE, bounds |-> sceneBounds]

\* The hook's state as one value.
HS == [layers |-> dynLayers, timers |-> dynTimers]

\* useDynamicLayers.addLayer: `cap` is the context value of the last render,
\* `g` holds the live refs; the hook state is returned unchanged when
\* addLayer returns null
dynAddLayer(g, cap, h, direction, id) ==
    LET currentPos == currentGridPosition(cap)
        newPos == calculateNewPosition(currentPos, direction)
        existingLayer == getLayerAtPosition(g, newPos)
    IN IF existingLayer # None THEN h
       ELSE [h EXCEPT !.layers = Append(@, [id |-> id, position |-> newPos]),
                      !.timers = Append(@, [position |-> newPos,
                                            historyIndex |-> cap.historyIndex])]

\* Array.prototype.filter
RECURSIVE filterOutPosition(_, _)
filterOutPosition(seq, pos) ==
    IF seq = <<>> THEN <<>>
    ELSE IF Head(seq).position = pos THEN filterOutPosition(Tail(seq), pos)
         ELSE <<Head(seq)>> \o filterOutPosition(Tail(seq), pos)

removeLayerAtPosition(h, position) ==
    [h EXCEPT !.layers = filterOutPosition(@, position)]

\* effect cleanups of the Page.Layer elements that left the list
RECURSIVE unregisterAll(_, _)
unregisterAll(g, order) ==
    IF order = <<>> THEN g
    ELSE unregisterAll(unregisterLayer(g, Head(order)), Tail(order))

\* register effects of the Page.Layer elements of the list, in list order
RECURSIVE registerAll(_, _)
registerAll(g, list) ==
    IF list = <<>> THEN g
    ELSE registerAll(registerLayer(g, Head(list).id, Head(list).position), Tail(list))

\* the ids of the registered layers that are no longer in the list, in
\* registration order
RECURSIVE unmounted(_, _)
unmounted(order, list) ==
    IF order = <<>> THEN <<>>
    ELSE IF \E k \in 1..Len(list) : list[k].id = Head(order)
         THEN unmounted(Tail(order), list)
         ELSE <<Head(order)>> \o unmounted(Tail(order), list)

\* variant of commitLayers that runs no effect cleanup
commitLayers_NoCleanup(g, h) == registerAll(g, h.layers)

\* React commits a render of the list: cleanups of removed Page.Layer
\* elements run, then the register effects of the mounted ones
commitLayers(g, h) ==
    registerAll(unregisterAll(g, unmounted(g.layerOrder, h.layers)), h.layers)

\* the setTimeout callback of addLayer: navigateToGridPosition of the context
\* captured when addLayer ran
timerFires(g, t) ==
    navigateToGridPosition(g, [g EXCEPT !.historyIndex = t.historyIndex], t.position)

getOccupiedPositions(g) ==
    LET vals == layerValues(g)
    IN [i \in 1..Len(vals) |->
          [position |-> <<vals[i].x, vals[i].y, vals[i].z>>, layerId |-> vals[i].id]]

(***************************************************************************)
(* Actions of the dynamic layer hook.                                      *)
(***************************************************************************)
\* `layer-${Date.now()}-${Math.random()}`: the clock has advanced since the
\* latest creation, so the id is one no layer carries
freshDynId == dynNow + 1

\* the part of the grid the layers are created in
DynWindow == {pos \in (0..1) \X (0..1) \X (0..1) : pos[1] + pos[2] + pos[3] <= 1}

\* every Page.Layer of the list has run its register effect and every removed
\* one its cleanup
rendered == DOMAIN gridLayers = {dynLayers[k].id : k \in 1..Len(dynLayers)}

SetHS(h) ==
    /\ dynLayers' = h.layers
    /\ dynTimers' = h.timers

DynAddLayer(direction) ==
    /\ variant = "dynamic"
    /\ dynNow < 1 + MaxCreated
    /\ calculateNewPosition(currentGridPosition(GS), direction) \in DynWindow
    /\ SetHS(dynAddLayer(GS, GS, HS, direction, freshDynId))
    /\ dynNow' = IF dynAddLayer(GS, GS, HS, direction, freshDynId) = HS
                  THEN dynNow ELSE freshDynId
    /\ UNCHANGED <<variant, edgeVars, gridVars, themeVars>>

DynRemoveLayerAtPosition(position) ==
    /\ variant = "dynamic"
    /\ SetHS(removeLayerAtPosition(HS, position))
    /\ UNCHANGED dynNow
    /\ UNCHANGED <<variant, edgeVars, gridVars, themeVars>>

DynCommit ==
    /\ variant = "dynamic"
    /\ SetGS(commitLayers(GS, HS))
    /\ KeepUnmounts
    /\ UNCHANGED <<variant, edgeVars, hookVars, themeVars>>

\* the callback runs 300 ms after addLayer, after React committed the list
DynTimerFires ==
    /\ variant = "dynamic"
    /\ dynTimers # <<>>
    /\ rendered
    /\ SetGS(timerFires(GS, Head(dynTimers)))
    /\ KeepUnmounts
    /\ dynTimers' = Tail(dynTimers)
    /\ UNCHANGED <<variant, edgeVars, dynLayers, dynNow, themeVars>>

NextDynamic ==
    \/ \E d \in RelativePosition : DynAddLayer(d)
    \/ \E pos \in DynWindow : DynRemoveLayerAtPosition(pos)
    \/ DynCommit
    \/ DynTimerFires

(***************************************************************************)
(* The ThemeProvider (getThemeSettings, InnerThemeProvider).               *)
(***************************************************************************)
ThemeMode == {"light", "dim", "dark"}
ThemeContrast == {"normal", "high"}
Theme == {"default", "glassmorphism", "cyberpunk", "neumorphism"}

\* localStorage.getItem returns null for an item that was never set
Null == "null"
emptyStorage == [mode |-> Null, contrast |-> Null, theme |-> Null]

\* defaultMode, defaultContrast, defaultTheme of ThemeProvider
themeDefaults == [mode |-> "light", contrast |-> "normal", theme |-> "default"]

\* The provider, the module-level cache, localStorage and the media queries
\* as one value; `cache` is the entry of themeSettingsCache under the default
\* cacheKey: <<>> when absent, else the settings its promise resolved to.
TS == [mounted |-> themeMounted, mode |-> mode, contrast |-> contrast,
       theme |-> theme, storage |-> storage, cache |-> themeSettingsCache,
       prefersDark |-> prefersDark, prefersContrast |-> prefersContrast]

\* the body of the promise of getThemeSettings: stored > system > default
loadThemeSettings(t, defaults) ==
    [mode |-> IF t.storage.mode \in ThemeMode THEN t.storage.mode
              ELSE IF t.prefersDark THEN "dark" ELSE defaults.mode,
     contrast |-> IF t.storage.contrast \in ThemeContrast THEN t.storage.contrast
                  ELSE IF t.prefersContrast THEN "high" ELSE defaults.contrast,
     theme |-> IF t.storage.theme \in Theme THEN t.storage.theme
               ELSE defaults.theme]

\* getThemeSettings: the cached promise when there is one, else a new one
\* that is stored in the cache
getThemeSettings(t, defaults) ==
    IF t.cache # <<>> THEN t.cache[1] ELSE loadThemeSettings(t, defaults)

\* the effect on [mode, contrast, theme]: the three setItem calls
persistTheme(t) ==
    [t EXCEPT !.storage = [mode |-> t.mode, contrast |-> t.contrast, theme |-> t.theme]]

\* a state update followed by the effect, which runs when a dependency changed
updateTheme(t, t1) ==
    IF <<t1.mode, t1.contrast, t1.theme>> = <<t.mode, t.contrast, t.theme>>
    THEN t1 ELSE persistTheme(t1)

\* InnerThemeProvider mounts: use(getThemeSettings(...)), the three useState
\* calls, then the effects of the first render
mountTheme(t) ==
    LET loaded == getThemeSettings(t, themeDefaults)
    IN persistTheme([t EXCEPT !.mounted = TRUE, !.cache = <<loaded>>,
                              !.mode = loaded.mode, !.contrast = loaded.contrast,
                              !.theme = loaded.theme])

\* the provider unmounts: its state is dropped, the module and localStorage stay
unmountTheme(t) ==
    [t EXCEPT !.mounted = FALSE, !.mode = themeDefaults.mode,
              !.contrast = themeDefaults.contrast, !.theme = themeDefaults.theme]

\* the page is reloaded: the module is evaluated again, localStorage stays
reloadPage(t) == [unmountTheme(t) EXCEPT !.cache = <<>>]

setMode(t, newMode) == updateTheme(t, [t EXCEPT !.mode = newMode])
setContrast(t, newContrast) == updateTheme(t, [t EXCEPT !.contrast = newContrast])
setTheme(t, newTheme) == updateTheme(t, [t EXCEPT !.theme = newTheme])

toggleMode(t) ==
    setMode(t, IF t.mode = "light" THEN "dim"
               ELSE IF t.mode = "dim" THEN "dark" ELSE "light")

toggleContrast(t) ==
    setContrast(t, IF t.contrast = "normal" THEN "high" ELSE "normal")

\* the system color scheme changes; the listener exists while mounted
handleDarkModeChange(t, matches) ==
    LET t1 == [t EXCEPT !.prefersDark = matches]
    IN IF t.mounted /\ t.storage.mode = Null
       THEN updateTheme(t1, [t1 EXCEPT !.mode = IF matches THEN "dark" ELSE "light"])
       ELSE t1

handleContrastChange(t, matches) ==
    LET t1 == [t EXCEPT !.prefersContrast = matches]
    IN IF t.mounted /\ t.storage.contrast = Null
       THEN updateTheme(t1, [t1 EXCEPT !.contrast = IF matches THEN "high" ELSE "normal"])
       ELSE t1

(***************************************************************************)
(* Actions of the ThemeProvider.                                           *)
(***************************************************************************)
SetTS(t) ==
    /\ themeMounted' = t.mounted
    /\ mode' = t.mode
    /\ contrast' = t.contrast
    /\ theme' = t.theme
    /\ storage' = t.storage
    /\ themeSettingsCache' = t.cache
    /\ prefersDark' = t.prefersDark
    /\ prefersContrast' = t.prefersContrast
    /\ UNCHANGED <<variant, edgeVars, gridVars, hookVars>>

MountTheme == variant = "theme" /\ ~themeMounted /\ SetTS(mountTheme(TS))
UnmountTheme == variant = "theme" /\ themeMounted /\ SetTS(unmountTheme(TS))
ReloadPage == variant = "theme" /\ SetTS(reloadPage(TS))
SetMode(newMode) == variant = "theme" /\ themeMounted /\ SetTS(setMode(TS, newMode))
SetContrast(newContrast) ==
    variant = "theme" /\ themeMounted /\ SetTS(setContrast(TS, newContrast))
SetTheme(newTheme) == variant = "theme" /\ themeMounted /\ SetTS(setTheme(TS, newTheme))
ToggleMode == variant = "theme" /\ themeMounted /\ SetTS(toggleMode(TS))
ToggleContrast == variant = "theme" /\ themeMounted /\ SetTS(toggleContrast(TS))
SystemDarkModeChange == variant = "theme" /\ SetTS(handleDarkModeChange(TS, ~prefersDark))
SystemContrastChange ==
    variant = "theme" /\ SetTS(handleContrastChange(TS, ~prefersContrast))

NextTheme ==
    \/ MountTheme
    \/ UnmountTheme
    \/ ReloadPage
    \/ \E newMode \in ThemeMode : SetMode(newMode)
    \/ \E newContrast \in ThemeContrast : SetContrast(newContrast)
    \/ \E newTheme \in Theme : SetTheme(newTheme)
    \/ ToggleMode
    \/ ToggleContrast
    \/ SystemDarkModeChange
    \/ SystemContrastChange

(***************************************************************************)
(* Specifications.                                                         *)
(***************************************************************************)
vars == <<variant, edgeVars, gridVars, hookVars, themeVars>>

InitEdgeState ==
    /\ layers = emptyWorkspace.layers
    /\ positionIndex = emptyWorkspace.positionIndex
    /\ surfaceStacks = emptyWorkspace.surfaceStacks
    /\ activeLayerId = None
    /\ thrown = NoError

InitGridState ==
    /\ gridLayers = <<>>
    /\ layerOrder = <<>>
    /\ currentX = 0
    /\ currentY = 0
    /\ currentOffset = 0
    /\ history = <<>>
    /\ historyIndex = -1
    /\ unmounts = 0

InitHookState ==
    /\ dynLayers = <<>>
    /\ dynTimers = <<>>
    /\ dynNow = 0

InitThemeState ==
    /\ themeMounted = FALSE
    /\ mode = "light"
    /\ contrast = "normal"
    /\ theme = "default"
    /\ storage = emptyStorage
    /\ themeSettingsCache = <<>>
    /\ prefersDark = FALSE
    /\ prefersContrast = FALSE

InitEdge ==
    /\ variant = "edge"
    /\ InitEdgeState /\ InitGridState /\ InitHookState /\ InitThemeState
    /\ gridConfig = defaultGridConfig
InitGrid ==
    /\ variant = "grid"
    /\ InitEdgeState /\ InitGridState /\ InitHookState /\ InitThemeState
    /\ gridConfig \in GridConfigs
InitDynamic ==
    /\ variant = "dynamic"
    /\ InitEdgeState /\ InitGridState /\ InitThemeState
    /\ dynLayers = initialLayers
    /\ dynTimers = <<>>
    /\ dynNow = 1
    /\ gridConfig = dynamicGridConfig

InitTheme ==
    /\ variant = "theme"
    /\ InitEdgeState /\ InitGridState /\ InitHookState /\ InitThemeState
    /\ gridConfig = defaultGridConfig

Init == InitEdge \/ InitGrid \/ InitDynamic \/ InitTheme
Next == NextEdge \/ NextGrid \/ NextDynamic \/ NextTheme

SpecEdge == InitEdge /\ [][NextEdge]_vars
SpecGrid == InitGrid /\ [][NextGrid]_vars
SpecDynamic == InitDynamic /\ [][NextDynamic]_vars
SpecTheme == InitTheme /\ [][NextTheme]_vars
Spec == Init /\ [][Next]_vars

(***************************************************************************)
(* Properties of the edge-linked workspace graph.                          *)
(***************************************************************************)
coordOf(node) == coordKey(node.x, node.y, node.z)

\* the parts of the workspace a failed call must leave alone
sameGraph(r, ws) ==
    /\ r.layers = ws.layers
    /\ r.positionIndex = ws.positionIndex
    /\ r.surfaceStacks = ws.surfaceStacks
    /\ r.activeLayerId = ws.activeLayerId

nodeAt(ws, c) == {n \in DOMAIN ws.layers : coordOf(ws.layers[n]) = coordKey(c.x, c.y, c.z)}

\* C1: no two stored nodes have the same (x,y,z) coordinate, and a connect
\* whose computed target coordinate holds a node fails and adds no node.
C1_OneNodePerCoordinate ==
    /\ \A a, b \in DOMAIN layers :
          a # b => coordOf(layers[a]) # coordOf(layers[b])
    /\ \A f \in DOMAIN layers, d \in ConnectDirection, id \in Ids :
          nodeAt(WS, targetCoord(layers[f], d)) # {} =>
             LET r == addLayer(WS, f, d, id)
             IN r.thrown # NoError /\ r.layers = layers

\* a connect into a coordinate held by another node has been refused
C1_Witness ==
    /\ thrown = PositionOccupied
    /\ Cardinality(DOMAIN layers) >= 2
    /\ \E f \in DOMAIN layers, d \in ConnectDirection :
          /\ layers[f].adjacent[d] = None
          /\ nodeAt(WS, targetCoord(layers[f], d)) # {}

\* C2: positionIndex has as many entries as nodesById has nodes.
C2_IndexSizeEqualsNodeCount ==
    Cardinality(DOMAIN positionIndex) = Cardinality(DOMAIN layers)

\* C3: addRoot on a non-empty graph fails with the duplicate-root error and
\* leaves nodesById, positionIndex, surfaceStacks and activeId as they were;
\* addRoot on an empty graph creates the node at (0,0,0) and makes it active.
C3_AddRootOnceOnly ==
    \A id \in Ids :
        LET r == addRootLayer(WS, id) IN
        IF DOMAIN layers # {}
        THEN r.thrown = DuplicateRoot /\ sameGraph(r, WS)
        ELSE /\ r.thrown = NoError
             /\ DOMAIN r.layers = {id}
             /\ coordOf(r.layers[id]) = coordKey(0, 0, 0)
             /\ r.positionIndex = (coordKey(0, 0, 0) :> id)
             /\ r.activeLayerId = id

\* a second addRoot has been refused on a graph that holds nodes
C3_Witness ==
    /\ thrown = DuplicateRoot
    /\ DOMAIN layers # {}
    /\ coordKey(0, 0, 0) \in DOMAIN positionIndex

\* C4: a connect from an unknown id, in a direction that already has a
\* neighbor, or into an occupied coordinate raises an error and changes
\* nothing of nodesById, positionIndex, surfaceStacks, adjacency and activeId.
C4_FailedConnectChangesNothing ==
    \A f \in Ids, d \in ConnectDirection, id \in Ids :
        LET r == addLayer(WS, f, d, id)
            bad == \/ f \notin DOMAIN layers
                   \/ layers[f].adjacent[d] # None
                   \/ coordOf(targetCoord(layers[f], d)) \in DOMAIN positionIndex
        IN /\ bad => r.thrown \in {LayerNotFound, NeighborExists, PositionOccupied}
           /\ bad => sameGraph(r, WS)
           /\ r.thrown # NoError => sameGraph(r, WS)

\* a connect has been refused on a graph with several nodes
C4_Witness ==
    /\ thrown \in {NeighborExists, PositionOccupied}
    /\ Cardinality(DOMAIN layers) >= 2

\* C5: after a successful connect(from, d, N): the edge d of from is taken,
\* N holds the reverse edge, every other edge of N is free, and N is active.
C5_ConnectLinksBothWays ==
    \A f \in Ids, d \in ConnectDirection, id \in Ids :
        LET r == addLayer(WS, f, d, id) IN
        r.thrown = NoError =>
            /\ ~isEdgeAvailable(r, f, d)
            /\ r.layers[id].adjacent[oppositeEdge[d]] = f
            /\ \A e \in ConnectDirection \ {oppositeEdge[d]} : isEdgeAvailable(r, id, e)
            /\ r.activeLayerId = id

\* C6: after a successful connect(F, d, N) in a lateral direction d,
\* connect(N, opposite(d), M) fails for every M and creates no node; the
\* coordinate it would target is the one registered for F.
C6_ConnectBackFails ==
    \A f \in Ids, d \in EdgeDirection, n \in Ids, m \in Ids :
        LET r1 == addLayer(WS, f, d, n) IN
        r1.thrown = NoError =>
            LET r2 == addLayer(r1, n, oppositeEdge[d], m)
                back == targetCoord(r1.layers[n], oppositeEdge[d])
            IN /\ r2.thrown \in {NeighborExists, PositionOccupied}
               /\ sameGraph(r2, r1)
               /\ coordOf(back) = coordOf(layers[f])
               /\ coordOf(back) \in DOMAIN r1.positionIndex
               /\ r1.positionIndex[coordOf(back)] = f

\* a connect back towards the node one was created from has been refused
C6_Witness ==
    /\ thrown = NeighborExists
    /\ activeLayerId \in DOMAIN layers
    /\ \E d \in EdgeDirection :
          LET f == layers[activeLayerId].adjacent[oppositeEdge[d]] IN
          /\ f \in DOMAIN layers
          /\ f # activeLayerId
          /\ layers[f].adjacent[d] = activeLayerId
          /\ coordOf(targetCoord(layers[activeLayerId], oppositeEdge[d]))
                = coordOf(layers[f])

(***************************************************************************)
(* Properties of the active layer and of navigation.                       *)
(***************************************************************************)
activeGridLayers == {i \in DOMAIN gridLayers : gridLayers[i].state = "active"}

layersAt(pos) ==
    {i \in DOMAIN gridLayers :
        <<gridLayers[i].x, gridLayers[i].y, gridLayers[i].z>> = pos}

\* the adjacency slot navigate(d) follows in the edge-linked graph
edgeSlot(d) ==
    CASE d = "forward" -> "above"
      [] d = "backward" -> "below"
      [] OTHER -> d

StepDirection == NavigationDirection \ {"first", "last"}

\* C7: whenever at least one layer exists, exactly one layer is active and
\* it is a layer of the registry.
C7_ExactlyOneActive ==
    /\ (variant = "edge" /\ DOMAIN layers # {}) => activeLayerId \in DOMAIN layers
    /\ (variant = "grid" /\ DOMAIN gridLayers # {}) => Cardinality(activeGridLayers) = 1

\* the unit step of a direction: up=(0,+1), down=(0,-1), left=(-1,0),
\* right=(+1,0), forward z+1, backward z-1
unitOffset(d) ==
    CASE d = "up"       -> <<0, 1, 0>>
      [] d = "down"     -> <<0, -1, 0>>
      [] d = "left"     -> <<-1, 0, 0>>
      [] d = "right"    -> <<1, 0, 0>>
      [] d = "forward"  -> <<0, 0, 1>>
      [] d = "backward" -> <<0, 0, -1>>

\* the coordinate next to grid layer i in direction d
gridNeighborCoord(i, d) ==
    <<gridLayers[i].x + unitOffset(d)[1],
      gridLayers[i].y + unitOffset(d)[2],
      gridLayers[i].z + unitOffset(d)[3]>>

\* C8: navigate(d) towards a direction in which the active node has no
\* neighbor (no layer), and navigateToPosition to a coordinate that holds no
\* layer, do not throw and leave the active layer, the position, the history
\* and the cursor unchanged.
C8_NoTargetIsNoOp ==
    /\ variant = "edge" =>
          \A d \in StepDirection :
             (/\ activeLayerId \in DOMAIN layers
              /\ layers[activeLayerId].adjacent[edgeSlot(d)] = None)
             => navigate(WS, d) = [WS EXCEPT !.thrown = NoError]
    /\ variant = "grid" =>
          /\ \A d \in StepDirection : \A a \in activeGridLayers :
                layersAt(gridNeighborCoord(a, d)) = {} => gridNavigate(GS, GS, d) = GS
          /\ \A pos \in GridPositions :
                layersAt(pos) = {} => navigateToGridPosition(GS, GS, pos) = GS

\* C9: a navigation that does not change the active layer appends no history
\* entry and leaves the cursor: navigateToPosition onto the active layer's own
\* coordinate, and navigate("first") / navigate("last") landing on it.
C9_HistoryOnlyOnChange ==
    variant = "grid" =>
        /\ \A pos \in GridPositions :
              (gridActiveLayer(GS) # None /\ gridActiveLayer(GS) \in layersAt(pos)) =>
                 LET r == navigateToGridPosition(GS, GS, pos)
                 IN r.history = history /\ r.historyIndex = historyIndex
        /\ \A d \in {"first", "last"} :
              LET r == gridNavigate(GS, GS, d) IN
              (gridActiveLayer(GS) # None /\ gridActiveLayer(r) = gridActiveLayer(GS)) =>
                 r.history = history /\ r.historyIndex = historyIndex

\* the state after root, then A, then B (by navigateToPosition(2,0,0)) were active
visitedRootAB ==
    /\ variant = "grid"
    /\ layerOrder = <<1, 2, 3>>
    /\ history = << [layerId |-> 2, index |-> 1], [layerId |-> 3, index |-> 2] >>
    /\ historyIndex = 1
    /\ activeGridLayers = {3}
    /\ currentGridPosition(GS) = <<2, 0, 0>>

\* C10: once root, A and B have been active in turn, back() activates A, a
\* second back() activates root and forward() then activates A again.
C10_BackBackForward ==
    visitedRootAB =>
        LET b1 == goBack(GS, GS)
            b2 == goBack(b1, b1)
            f == goForward(b2, b2)
        IN /\ gridActiveLayer(b1) = 2
           /\ gridActiveLayer(b2) = 1
           /\ gridActiveLayer(f) = 2

(***************************************************************************)
(* Properties of the navigation history.                                   *)
(***************************************************************************)
\* the entry a navigation onto grid layer i records
entryOf(i) == [layerId |-> i, index |-> gridLayers[i].index]

\* every navigation onto an existing layer that can be issued in this state,
\* as <<state after the call, entry it has to record>>
freshNavigations ==
    { <<navigateToGridPosition(GS, GS, pos), entryOf(CHOOSE i \in layersAt(pos) : TRUE)>> :
          pos \in {q \in GridPositions : layersAt(q) # {}} }
    \cup
    { <<navigateToIndex(GS, GS, i), [layerId |-> layerOrder[i + 1], index |-> i]>> :
          i \in 0..(Len(layerOrder) - 1) }

\* the n most recent elements of seq
lastN(seq, n) ==
    IF Len(seq) <= n THEN seq ELSE SubSeq(seq, Len(seq) - n + 1, Len(seq))

\* C11: back() with cursor > 0 moves the cursor down by exactly one, forward()
\* with cursor < last index moves it up by exactly one, and neither changes
\* the history log.
C11_BackForwardNeverRecord ==
    variant = "grid" =>
        /\ historyIndex > 0 =>
              LET r == goBack(GS, GS)
              IN r.historyIndex = historyIndex - 1 /\ r.history = history
        /\ historyIndex < Len(history) - 1 =>
              LET r == goForward(GS, GS)
              IN r.historyIndex = historyIndex + 1 /\ r.history = history

\* C12: with the cursor before the tail of the history, a navigation onto an
\* existing layer drops every entry beyond the cursor, appends its own entry,
\* leaves the cursor on that new tail, and a forward() right after it does
\* nothing.
C12_FreshMoveDropsRedo ==
    (variant = "grid" /\ historyIndex < Len(history) - 1) =>
        \A p \in freshNavigations :
            /\ p[1].history = Append(SubSeq(history, 1, historyIndex + 1), p[2])
            /\ p[1].historyIndex = Len(p[1].history) - 1
            /\ goForward(p[1], p[1]) = p[1]

\* the cursor sits before the tail and a layer can be navigated to
C12_Witness ==
    /\ variant = "grid"
    /\ historyIndex >= 0
    /\ historyIndex < Len(history) - 1
    /\ \E p \in freshNavigations : p[2] # history[Len(history)]

\* C13: the history never holds more than maxHistory entries; a navigation
\* issued with the cursor on the tail (as after any run of navigations) leaves
\* the most recent maxHistory moves in visit order, the oldest evicted first,
\* and the cursor on the last entry.
C13_HistoryBounded ==
    variant = "grid" =>
        /\ Len(history) <= maxHistory
        /\ historyIndex = Len(history) - 1 =>
              \A p \in freshNavigations :
                  /\ p[1].history = lastN(Append(history, p[2]), maxHistory)
                  /\ p[1].historyIndex = Len(p[1].history) - 1

\* the log is full of moves between distinct layers and one more move is possible
C13_Witness ==
    /\ variant = "grid"
    /\ Len(history) = maxHistory
    /\ historyIndex = maxHistory - 1
    /\ \A k \in 1..(Len(history) - 1) : history[k].layerId # history[k + 1].layerId
    /\ \E p \in freshNavigations : p[2].layerId # history[Len(history)].layerId

\* C14: back() with cursor <= 0 (an empty history included) and forward() with
\* the cursor on or past the last index change nothing: active layer,
\* position, history and cursor.
C14_BackForwardAtEnds ==
    variant = "grid" =>
        /\ historyIndex <= 0 => (~canGoBack(GS) /\ goBack(GS, GS) = GS)
        /\ historyIndex >= Len(history) - 1 =>
              (~canGoForward(GS) /\ goForward(GS, GS) = GS)

\* one recorded move, the cursor on it, a layer active
C14_Witness ==
    /\ variant = "grid"
    /\ Len(history) = 1
    /\ historyIndex = 0
    /\ activeGridLayers # {}

(***************************************************************************)
(* Round trip between connect and navigate in the edge-linked workspace.   *)
(***************************************************************************)
\* the navigate direction that follows a connect direction, and the one back
replayDirection(d) == IF d = "above" THEN "forward" ELSE d
returnDirection(d) == IF d = "above" THEN "backward" ELSE oppositeEdge[d]

\* C15: once F -d1-> N1 -d2-> N2 have been connected, making F active and
\* navigating d1 lands on N1, navigating d2 from there lands on N2, and
\* navigating the opposite of d2 from N2 returns to N1.
C15_ReplayLandsOnNode ==
    variant = "edge" =>
        \A F \in DOMAIN layers : \A d1, d2 \in ConnectDirection : \A N1, N2 \in Ids :
            LET ws1 == addLayer(WS, F, d1, N1)
                ws2 == addLayer(ws1, N1, d2, N2)
            IN (ws1.thrown = NoError /\ ws2.thrown = NoError) =>
                 LET atF == setActiveLayer(ws2, F)
                     atN1 == navigate(atF, replayDirection(d1))
                     atN2 == navigate(atN1, replayDirection(d2))
                     back == navigate(ws2, returnDirection(d2))
                 IN /\ atN1.activeLayerId = N1
                    /\ atN2.activeLayerId = N2
                    /\ back.activeLayerId = N1

(***************************************************************************)
(* Properties of navigation by index, by id, by depth and within bounds.   *)
(***************************************************************************)
\* C16: navigateToIndex(i) with 0 <= i < number of layers makes the i-th
\* layer in creation order the active layer, for every such i.
C16_NavigateToIndexActivates ==
    variant = "grid" =>
        \A i \in 0..(Len(layerOrder) - 1) :
            gridActiveLayer(navigateToIndex(GS, GS, i)) = layerOrder[i + 1]

\* C17: navigateToIndex(i) with i < 0 or i >= number of layers leaves the
\* whole state unchanged: offset, position, active flags, history, cursor.
C17_OutOfRangeIndexIgnored ==
    variant = "grid" =>
        \A i \in {-1, Len(layerOrder), Len(layerOrder) + 1} :
            navigateToIndex(GS, GS, i) = GS

\* C18: activating an id that is not in the graph signals an error and
\* changes neither the active layer nor the history; activating a known id
\* makes that layer the active one and, for setActive, changes nothing else.
C18_DirectActivation ==
    /\ variant = "edge" =>
          \A id \in Ids :
             LET r == setActiveLayer(WS, id) IN
             IF id \in DOMAIN layers
             THEN r = [WS EXCEPT !.activeLayerId = id, !.thrown = NoError]
             ELSE r.thrown # NoError /\ sameGraph(r, WS)
    /\ variant = "grid" =>
          \A id \in GridIds :
             LET r == navigateToLayer(GS, GS, id) IN
             IF id \in DOMAIN gridLayers
             THEN gridActiveLayer(r) = id
             ELSE navigateToLayerThrows(GS, id) /\ r = GS

\* the edge nodes on the surface (x,y) of node a
edgeSurface(a) ==
    {n \in DOMAIN layers : layers[n].x = layers[a].x /\ layers[n].y = layers[a].y}

\* the grid layers on the surface (x,y) of layer a
gridSurface(a) ==
    {i \in DOMAIN gridLayers :
        gridLayers[i].x = gridLayers[a].x /\ gridLayers[i].y = gridLayers[a].y}

\* C19: navigate("first") activates the node of smallest z and
\* navigate("last") the node of largest z among the nodes on the active
\* node's (x,y) surface.
C19_FirstLastOnSurface ==
    /\ (variant = "edge" /\ activeLayerId \in DOMAIN layers) =>
          LET S == edgeSurface(activeLayerId)
              first == navigate(WS, "first").activeLayerId
              last == navigate(WS, "last").activeLayerId
          IN /\ first \in S /\ \A n \in S : layers[first].z <= layers[n].z
             /\ last \in S /\ \A n \in S : layers[last].z >= layers[n].z
    /\ variant = "grid" =>
          \A a \in activeGridLayers :
             LET S == gridSurface(a)
                 first == gridActiveLayer(gridNavigate(GS, GS, "first"))
                 last == gridActiveLayer(gridNavigate(GS, GS, "last"))
             IN /\ first \in S /\ \A i \in S : gridLayers[first].z <= gridLayers[i].z
                /\ last \in S /\ \A i \in S : gridLayers[last].z >= gridLayers[i].z

\* pos lies inside the configured bounds
withinBounds(pos) ==
    /\ gridConfig.bounds.minX <= pos[1] /\ pos[1] <= gridConfig.bounds.maxX
    /\ gridConfig.bounds.minY <= pos[2] /\ pos[2] <= gridConfig.bounds.maxY
    /\ gridConfig.bounds.minZ <= pos[3] /\ pos[3] <= gridConfig.bounds.maxZ

\* the coordinate one step from the current grid position in direction d
stepFromHere(d) ==
    LET here == currentGridPosition(GS)
    IN <<here[1] + unitOffset(d)[1], here[2] + unitOffset(d)[2], here[3] + unitOffset(d)[3]>>

\* C20: with bounds configured and infinite = false, navigate(d) from a
\* position inside the bounds never leaves them, and a move whose target is
\* out of bounds changes nothing; with infinite = true the move is made as if
\* no bounds were given.
C20_NavigateStaysInBounds ==
    (variant = "grid" /\ gridConfig.hasBounds) =>
        IF gridConfig.infinite
        THEN \A d \in StepDirection :
                gridNavigate(GS, GS, d) = navigateToGridPosition(GS, GS, stepFromHere(d))
        ELSE /\ \A d \in NavigationDirection :
                   withinBounds(currentGridPosition(GS)) =>
                      withinBounds(currentGridPosition(gridNavigate(GS, GS, d)))
             /\ \A d \in StepDirection :
                   ~withinBounds(stepFromHere(d)) => gridNavigate(GS, GS, d) = GS

\* inside the bounds, next to a registered layer that lies outside of them
C20_Witness ==
    /\ variant = "grid"
    /\ gridConfig.hasBounds /\ ~gridConfig.infinite
    /\ withinBounds(currentGridPosition(GS))
    /\ Len(history) >= 1
    /\ \E d \in StepDirection :
          ~withinBounds(stepFromHere(d)) /\ layersAt(stepFromHere(d)) # {}

(***************************************************************************)
(* Properties of the workspace snapshot and of the edge bookkeeping.       *)
(***************************************************************************)
\* the ids in the adjacency map of node a
neighborsOf(a) ==
    {layers[a].adjacent[d] : d \in EdgeDirection \cup DepthDirection} \ {None}

\* C21: visibleLayerIds is empty without an active layer, is [activeId] when
\* virtualizeNeighbors is off, and holds activeId plus the ids of the active
\* node's adjacency map, each once and nothing else, when it is on; every
\* visible id is an existing node.
C21_VisibleLayerIds ==
    variant = "edge" =>
        \A virtualizeNeighbors \in BOOLEAN :
            LET visible == getSnapshot(WS, virtualizeNeighbors).visibleLayerIds
                ids == {visible[i] : i \in 1..Len(visible)}
            IN /\ ids \subseteq DOMAIN layers
               /\ Cardinality(ids) = Len(visible)
               /\ activeLayerId = None => visible = <<>>
               /\ (activeLayerId # None /\ ~virtualizeNeighbors) => visible = <<activeLayerId>>
               /\ (activeLayerId # None /\ virtualizeNeighbors) =>
                     ids = {activeLayerId} \cup neighborsOf(activeLayerId)

\* the active node has two neighbors and an empty slot
C21_Witness ==
    /\ variant = "edge"
    /\ activeLayerId \in DOMAIN layers
    /\ Cardinality(neighborsOf(activeLayerId) \ {activeLayerId}) >= 2
    /\ \E d \in EdgeDirection : layers[activeLayerId].adjacent[d] = None

\* two definition ids that no node of the graph carries
FreshId == NumIds + 1
FreshId2 == NumIds + 2

\* every id was used once: no node replaced another one in layersRef
idsNeverReused == Cardinality(DOMAIN positionIndex) = Cardinality(DOMAIN layers)

\* every edge of ws that isEdgeAvailable reports free can be connected
availableEdgesConnect(ws, id) ==
    \A n \in DOMAIN ws.layers : \A d \in ConnectDirection :
        isEdgeAvailable(ws, n, d) => addLayer(ws, n, d, id).thrown = NoError

\* C26: when isEdgeAvailable(id, d) is true for an existing node, connect on
\* that edge with a fresh id succeeds; checked in the current graph and in
\* the graph after one more connect.
C26_AvailableEdgeConnects ==
    (variant = "edge" /\ idsNeverReused) =>
        /\ availableEdgesConnect(WS, FreshId)
        /\ \A F \in DOMAIN layers : \A d \in ConnectDirection :
              LET ws1 == addLayer(WS, F, d, FreshId)
              IN ws1.thrown = NoError => availableEdgesConnect(ws1, FreshId2)

\* the unit offset of an adjacency slot: up=(0,+1), down=(0,-1), left=(-1,0),
\* right=(+1,0), above z+1, below z-1
slotOffset(d) ==
    CASE d = "up"    -> <<0, 1, 0>>
      [] d = "down"  -> <<0, -1, 0>>
      [] d = "left"  -> <<-1, 0, 0>>
      [] d = "right" -> <<1, 0, 0>>
      [] d = "above" -> <<0, 0, 1>>
      [] d = "below" -> <<0, 0, -1>>

\* C27: if node A has adjacency[d] = B then B exists, B has
\* adjacency[opposite(d)] = A and B lies one unit offset of d away from A.
C27_AdjacencyMatchesCoordinates ==
    variant = "edge" =>
        \A A \in DOMAIN layers : \A d \in EdgeDirection \cup DepthDirection :
            LET B == layers[A].adjacent[d] IN
            B # None =>
                /\ B \in DOMAIN layers
                /\ layers[B].adjacent[oppositeEdge[d]] = A
                /\ layers[B].x = layers[A].x + slotOffset(d)[1]
                /\ layers[B].y = layers[A].y + slotOffset(d)[2]
                /\ layers[B].z = layers[A].z + slotOffset(d)[3]

(***************************************************************************)
(* Properties of the grid registry and of the history cursor.              *)
(***************************************************************************)
\* C28: distinct registered layers have distinct index values and every
\* registered layer L satisfies layerOrder[L.index] = L.id.
C28_IndexResolvesToLayer ==
    variant = "grid" =>
        /\ \A i, j \in DOMAIN gridLayers :
              i # j => gridLayers[i].index # gridLayers[j].index
        /\ \A i \in DOMAIN gridLayers :
              /\ gridLayers[i].index < Len(layerOrder)
              /\ layerOrder[gridLayers[i].index + 1] = i

\* the cursor is -1 or points at an entry, and the log respects maxHistory
historyWellFormed(g) ==
    /\ -1 <= g.historyIndex
    /\ g.historyIndex <= Len(g.history) - 1
    /\ Len(g.history) <= maxHistory

\* C29: -1 <= historyIndex <= history.length - 1 and history.length <=
\* maxHistory in every reachable state, and also after two navigations issued
\* within one event (both read the historyIndex captured at the last
\* render), in which case both moves are in the log.
C29_CursorWithinHistory ==
    variant = "grid" =>
        /\ historyWellFormed(GS)
        /\ \A p1, p2 \in {q \in GridPositions : layersAt(q) # {}} :
              LET r1 == navigateToGridPosition(GS, GS, p1)
                  r2 == navigateToGridPosition(r1, GS, p2)
                  e1 == entryOf(CHOOSE i \in layersAt(p1) : TRUE)
                  e2 == entryOf(CHOOSE i \in layersAt(p2) : TRUE)
                  kept == SubSeq(history, 1, Min(historyIndex + 1, Len(history)))
              IN /\ historyWellFormed(r2)
                 /\ r2.history = lastN(kept \o <<e1, e2>>, maxHistory)

\* C30: whenever getActiveLayer() returns a layer, its (x,y,z) equals
\* currentGridPosition.
C30_ActiveLayerAtCurrentPosition ==
    variant = "grid" =>
        LET a == gridActiveLayer(GS) IN
        a # None =>
            <<gridLayers[a].x, gridLayers[a].y, gridLayers[a].z>> = currentGridPosition(GS)

\* the position of a registered grid layer
gridPositionOf(g, id) == <<g.layers[id].x, g.layers[id].y, g.layers[id].z>>

\* the positions of the layers created by the hook, registered or not
createdPositions(h) == {h.layers[k].position : k \in 1..Len(h.layers)}

\* C25: dynamic layer creation never yields two layers at the same grid
\* position: no two created layers and no two registered layers share a
\* position, and addLayer returns null and adds nothing whenever a layer,
\* registered or created but not yet registered, exists at the target position.
C25_NoTwoLayersAtOnePosition ==
    variant = "dynamic" =>
        /\ \A j, k \in 1..Len(dynLayers) :
              dynLayers[j].position = dynLayers[k].position => j = k
        /\ \A a, b \in DOMAIN gridLayers :
              gridPositionOf(GS, a) = gridPositionOf(GS, b) => a = b
        /\ \A d \in RelativePosition :
              LET target == calculateNewPosition(currentGridPosition(GS), d)
              IN (target \in createdPositions(HS) \/ getLayerAtPosition(GS, target) # None)
                    => dynAddLayer(GS, GS, HS, d, freshDynId) = HS

\* C22: once removeLayerAtPosition(p) has taken effect (the list is committed),
\* no layer is reported at p by getLayerAtPosition or getOccupiedPositions,
\* navigateToGridPosition(p) changes nothing, and every layer registered at
\* another position is still registered with the same id and position.
C22_RemoveAtEvicts ==
    (variant = "dynamic" /\ rendered) =>
        \A p \in DynWindow :
            LET h1 == removeLayerAtPosition(HS, p)
                g1 == commitLayers(GS, h1)
                occupied == getOccupiedPositions(g1)
            IN /\ getLayerAtPosition(g1, p) = None
               /\ \A i \in 1..Len(occupied) : occupied[i].position # p
               /\ navigateToGridPosition(g1, g1, p) = g1
               /\ \A id \in DOMAIN gridLayers :
                     gridPositionOf(GS, id) # p =>
                        /\ id \in DOMAIN g1.layers
                        /\ g1.layers[id].id = id
                        /\ gridPositionOf(g1, id) = gridPositionOf(GS, id)

\* a committed list from which a created layer was removed while others stay,
\* with a further layer that can be removed
C22_Witness ==
    /\ variant = "dynamic"
    /\ rendered
    /\ Len(dynLayers) < dynNow
    /\ Cardinality(DOMAIN gridLayers) >= 2
    /\ history # <<>>
    /\ \E p \in DynWindow : getLayerAtPosition(GS, p) # None

\* C23: while the provider is mounted and the user never set a mode, a change
\* of the system color scheme switches the mode to follow it (dark when it
\* matches, light otherwise), and contrast follows a prefers-contrast change
\* alike; once the user has set a value, system changes are ignored.
C23_SystemPreferenceFollowed ==
    variant = "theme" =>
        /\ (~themeMounted /\ storage.mode = Null) =>
              LET t1 == mountTheme(TS)
                  t2 == handleDarkModeChange(t1, ~t1.prefersDark)
              IN t2.mode = IF t2.prefersDark THEN "dark" ELSE "light"
        /\ (~themeMounted /\ storage.contrast = Null) =>
              LET t1 == mountTheme(TS)
                  t2 == handleContrastChange(t1, ~t1.prefersContrast)
              IN t2.contrast = IF t2.prefersContrast THEN "high" ELSE "normal"
        /\ themeMounted =>
              /\ \A m \in ThemeMode :
                    LET t1 == setMode(TS, m)
                    IN handleDarkModeChange(t1, ~t1.prefersDark).mode = m
              /\ \A c \in ThemeContrast :
                    LET t1 == setContrast(TS, c)
                    IN handleContrastChange(t1, ~t1.prefersContrast).contrast = c

\* the part of C23 about values the user has set: system changes are ignored
C23_ManualValueKept ==
    (variant = "theme" /\ themeMounted) =>
        /\ \A m \in ThemeMode :
              LET t1 == setMode(TS, m)
              IN handleDarkModeChange(t1, ~t1.prefersDark).mode = m
        /\ \A c \in ThemeContrast :
              LET t1 == setContrast(TS, c)
              IN handleContrastChange(t1, ~t1.prefersContrast).contrast = c

\* a provider mounted next starts with the values of t, and localStorage
\* holds them
startsWith(t1, t) ==
    /\ t1.mounted
    /\ <<t1.mode, t1.contrast, t1.theme>> = <<t.mode, t.contrast, t.theme>>
    /\ t1.storage = [mode |-> t.mode, contrast |-> t.contrast, theme |-> t.theme]

\* C24: theme preferences persist: a provider mounted after a page reload or
\* after an unmount and remount in the same session starts with the last
\* mode, contrast and theme that were set, and localStorage holds those values.
C24_ThemePersists ==
    (variant = "theme" /\ themeMounted) =>
        /\ startsWith(mountTheme(reloadPage(TS)), TS)
        /\ startsWith(mountTheme(unmountTheme(TS)), TS)

\* the part of C24 about a page reload
C24_PersistsAcrossReload ==
    (variant = "theme" /\ themeMounted) => startsWith(mountTheme(reloadPage(TS)), TS)

====
